---- MODULE Spec2Model ----
(***************************************************************************)
(* Model of the Binance reverse proxy (main.go): the gin router built by   *)
(* setupRouter and the forwarding pipeline ProxyServer.ProxyRequest.       *)
(*                                                                         *)
(* Text that the code inspects character by character (URL paths, the      *)
(* value of the `symbols` query parameter, response bodies) is a sequence  *)
(* of one-character strings; Str turns such a sequence into a string.      *)
(* Header values, which the code only compares and copies, are strings.    *)
(* A multimap (url.Values, http.Header) is a function from the keys that   *)
(* are present to the non-empty sequence of their values.                  *)
(***************************************************************************)
EXTENDS Integers, Sequences, FiniteSets, TLC

VARIABLES binanceURL, inbound, upstream, pc, outbound, calls, resp, writer

vars == <<binanceURL, inbound, upstream, pc, outbound, calls, resp, writer>>

(* The requests in flight, each served by its own goroutine. *)
Reqs == {"r1", "r2"}

----------------------------------------------------------------------------
(* strings *)

RECURSIVE Str(_)
Str(s) == IF s = <<>> THEN "" ELSE s[1] \o Str(Tail(s))

(* strings.HasPrefix *)
HasPrefix(s, p) == Len(s) >= Len(p) /\ SubSeq(s, 1, Len(p)) = p

(* strings.TrimPrefix *)
TrimPrefix(s, p) == IF HasPrefix(s, p) THEN SubSeq(s, Len(p) + 1, Len(s)) ELSE s

(* strings.TrimSpace *)
RECURSIVE TrimLeft(_)
TrimLeft(s) == IF s # <<>> /\ s[1] = " " THEN TrimLeft(Tail(s)) ELSE s

RECURSIVE TrimRight(_)
TrimRight(s) ==
    IF s # <<>> /\ s[Len(s)] = " " THEN TrimRight(SubSeq(s, 1, Len(s) - 1)) ELSE s

TrimSpace(s) == TrimRight(TrimLeft(s))

(* strings.Split(s, ","): the fields between the commas, always at least one *)
RECURSIVE SplitFrom(_, _)
SplitFrom(s, cur) ==
    IF s = <<>> THEN <<cur>>
    ELSE IF s[1] = "," THEN <<cur>> \o SplitFrom(Tail(s), <<>>)
    ELSE SplitFrom(Tail(s), Append(cur, s[1]))

Split(s) == SplitFrom(s, <<>>)

(* strings.ToLower on the header names the model uses *)
ToLower(key) ==
    CASE key = "Host" -> "host"
      [] key = "Connection" -> "connection"
      [] key = "Keep-Alive" -> "keep-alive"
      [] key = "Accept-Encoding" -> "accept-encoding"
      [] key = "User-Agent" -> "user-agent"
      [] key = "Authorization" -> "authorization"
      [] key = "Content-Encoding" -> "content-encoding"
      [] key = "Content-Length" -> "content-length"
      [] key = "Content-Type" -> "content-type"
      [] key = "Set-Cookie" -> "set-cookie"
      [] key = "Access-Control-Allow-Origin" -> "access-control-allow-origin"
      [] key = "Access-Control-Allow-Methods" -> "access-control-allow-methods"
      [] key = "Access-Control-Allow-Headers" -> "access-control-allow-headers"
      [] key = "Access-Control-Max-Age" -> "access-control-max-age"
      [] OTHER -> key

(* fmt.Sprintf("%d", n) for the lengths the model reaches *)
Itoa(n) ==
    CASE n = 0 -> "0" [] n = 1 -> "1" [] n = 2 -> "2" [] n = 3 -> "3"
      [] n = 4 -> "4" [] n = 5 -> "5" [] n = 6 -> "6" [] n = 7 -> "7"
      [] n = 8 -> "8" [] n = 9 -> "9" [] OTHER -> "10+"

----------------------------------------------------------------------------
(* multimaps: http.Header and url.Values *)

(* Header.Get / Values.Get: the first value of the key, "" when absent *)
Get(h, key) == IF key \in DOMAIN h /\ h[key] # <<>> THEN h[key][1] ELSE ""

(* Header.Set / Values.Set: the key maps to the single value *)
Set(h, key, value) ==
    [k \in DOMAIN h \cup {key} |-> IF k = key THEN <<value>> ELSE h[k]]

(* Header.Add: the value is appended to the key's values *)
Add(h, key, value) ==
    [k \in DOMAIN h \cup {key} |->
        IF k = key THEN (IF key \in DOMAIN h THEN Append(h[key], value) ELSE <<value>>)
        ELSE h[k]]

(* Header.Del *)
Del(h, key) == [k \in DOMAIN h \ {key} |-> h[k]]

(* gin Context.Header: an empty value deletes the key, any other replaces it *)
CHeader(h, key, value) == IF value = "" THEN Del(h, key) ELSE Set(h, key, value)

----------------------------------------------------------------------------
(* path normalization and the outbound target *)

(* ProxyRequest: strip the prefix "/api", then guarantee a leading "/" *)
NormalizePath(path) ==
    LET stripped == IF HasPrefix(path, <<"/", "a", "p", "i">>)
                    THEN TrimPrefix(path, <<"/", "a", "p", "i">>)
                    ELSE path
    IN IF ~HasPrefix(stripped, <<"/">>) THEN <<"/">> \o stripped ELSE stripped

----------------------------------------------------------------------------
(* the symbols query parameter *)

(* json.Marshal of one string: quoted, with quote and backslash escaped *)
RECURSIVE JSONEscape(_)
JSONEscape(s) ==
    IF s = <<>> THEN <<>>
    ELSE (IF s[1] \in {"\"", "\\"} THEN <<"\\", s[1]>> ELSE <<s[1]>>)
         \o JSONEscape(Tail(s))

JSONString(s) == <<"\"">> \o JSONEscape(s) \o <<"\"">>

(* json.Marshal of a []string *)
RECURSIVE JSONElements(_)
JSONElements(list) ==
    IF list = <<>> THEN <<>>
    ELSE IF Len(list) = 1 THEN JSONString(list[1])
    ELSE JSONString(list[1]) \o <<",">> \o JSONElements(Tail(list))

JSONMarshal(list) == <<"[">> \o JSONElements(list) \o <<"]">>

(* the elements trimmed on the left only *)
TrimAllLeft(list) == [i \in 1..Len(list) |-> TrimLeft(list[i])]

(* ProxyRequest: the loop that trims every element of symbolsList *)
TrimAll(list) == [i \in 1..Len(list) |-> TrimSpace(list[i])]

(* the test for a JSON array made on the first two characters *)
NeedsConversionStrict(symbolsValue) == ~HasPrefix(symbolsValue, <<"[", "\"">>)

(* ProxyRequest: a first symbols value that is not yet a JSON array *)
NeedsConversion(symbolsValue) == ~HasPrefix(symbolsValue, <<"[">>)

(* ProxyRequest: split on commas, trim, marshal *)
ConvertSymbols(symbolsValue) == JSONMarshal(TrimAll(Split(symbolsValue)))

(* ProxyRequest: the value sent upstream for a first symbols value *)
NormalizeSymbols(symbolsValue) ==
    IF NeedsConversion(symbolsValue) THEN ConvertSymbols(symbolsValue) ELSE symbolsValue

(* the converted value takes the place of the first value only *)
NormalizeQueryFirstOnly(queryParams) ==
    IF "symbols" \in DOMAIN queryParams /\ Len(queryParams["symbols"]) > 0
    THEN IF NeedsConversion(queryParams["symbols"][1])
         THEN [queryParams EXCEPT !["symbols"] =
                  <<ConvertSymbols(queryParams["symbols"][1])>> \o Tail(@)]
         ELSE queryParams
    ELSE queryParams

(* ProxyRequest: queryParams after the symbols conversion *)
NormalizeQuery(queryParams) ==
    IF "symbols" \in DOMAIN queryParams /\ Len(queryParams["symbols"]) > 0
    THEN IF NeedsConversion(queryParams["symbols"][1])
         THEN Set(queryParams, "symbols", ConvertSymbols(queryParams["symbols"][1]))
         ELSE queryParams
    ELSE queryParams

----------------------------------------------------------------------------
(* url.Values.Encode *)

(* the query keys of the model, in the sorted order Encode emits them *)
QueryKeys == <<"interval", "symbol", "symbols">>

KeyChars(key) ==
    CASE key = "interval" -> <<"i", "n", "t", "e", "r", "v", "a", "l">>
      [] key = "symbol" -> <<"s", "y", "m", "b", "o", "l">>
      [] key = "symbols" -> <<"s", "y", "m", "b", "o", "l", "s">>

(* url.QueryEscape of one character *)
EscapeChar(c) ==
    CASE c = " " -> <<"+">>
      [] c = "[" -> <<"%", "5", "B">>
      [] c = "]" -> <<"%", "5", "D">>
      [] c = "," -> <<"%", "2", "C">>
      [] c = "\"" -> <<"%", "2", "2">>
      [] c = "\\" -> <<"%", "5", "C">>
      [] c = "&" -> <<"%", "2", "6">>
      [] c = "=" -> <<"%", "3", "D">>
      [] c = "+" -> <<"%", "2", "B">>
      [] c = "%" -> <<"%", "2", "5">>
      [] OTHER -> <<c>>

RECURSIVE QueryEscape(_)
QueryEscape(s) == IF s = <<>> THEN <<>> ELSE EscapeChar(s[1]) \o QueryEscape(Tail(s))

(* only the first value of the key is written *)
EncodeFirstValue(key, values) ==
    IF values = <<>> THEN <<>>
    ELSE <<"&">> \o QueryEscape(KeyChars(key)) \o <<"=">> \o QueryEscape(values[1])

RECURSIVE EncodeValues(_, _)
EncodeValues(key, values) ==
    IF values = <<>> THEN <<>>
    ELSE <<"&">> \o QueryEscape(KeyChars(key)) \o <<"=">> \o QueryEscape(values[1])
         \o EncodeValues(key, Tail(values))

RECURSIVE EncodeKeys(_, _)
EncodeKeys(v, i) ==
    IF i > Len(QueryKeys) THEN <<>>
    ELSE (IF QueryKeys[i] \in DOMAIN v THEN EncodeValues(QueryKeys[i], v[QueryKeys[i]])
          ELSE <<>>)
         \o EncodeKeys(v, i + 1)

(* the pairs joined by "&", without a leading "&" *)
Encode(v) == LET all == EncodeKeys(v, 1) IN IF all = <<>> THEN <<>> ELSE Tail(all)

(* ProxyRequest: targetURL, base and path and, for a non-empty multimap, the query *)
TargetURL(base, path, queryParams) ==
    base \o NormalizePath(path)
    \o (IF DOMAIN queryParams # {} THEN <<"?">> \o Encode(NormalizeQuery(queryParams))
        ELSE <<>>)

(* http.NewRequest fails when url.Parse rejects targetURL: a "%" that does  *)
(* not start a two-digit hexadecimal escape                                *)
HexDigits ==
    {"0", "1", "2", "3", "4", "5", "6", "7", "8", "9",
     "a", "b", "c", "d", "e", "f", "A", "B", "C", "D", "E", "F"}

NewRequestFails(targetURL) ==
    \E i \in 1..Len(targetURL) :
        /\ targetURL[i] = "%"
        /\ ~(i + 2 <= Len(targetURL)
             /\ targetURL[i + 1] \in HexDigits /\ targetURL[i + 2] \in HexDigits)

----------------------------------------------------------------------------
(* response bodies: gzip and JSON *)

(* A gzip stream is the header byte "GZ", the deflate data and the trailer  *)
(* "EOS"; in the data "D" repeats the byte before it and any other byte is *)
(* a literal.                                                              *)
GzipHeaderOK(body) == body # <<>> /\ body[1] = "GZ"

RECURSIVE Inflate(_, _)
Inflate(data, out) ==
    IF data = <<>> THEN [ok |-> FALSE, bytes |-> out]
    ELSE IF data[1] = "EOS" THEN [ok |-> Len(data) = 1, bytes |-> out]
    ELSE IF data[1] = "GZ" THEN [ok |-> FALSE, bytes |-> out]
    ELSE IF data[1] = "D"
         THEN IF out = <<>> THEN [ok |-> FALSE, bytes |-> out]
              ELSE Inflate(Tail(data), Append(out, out[Len(out)]))
    ELSE Inflate(Tail(data), Append(out, data[1]))

(* json.Unmarshal accepts the body: over the bytes of the model, only "{}" *)
IsJSON(body) == body = <<"{", "}">>

(* bodyToSend when the decompressed bytes are never taken *)
BodyToSendCompressed(contentEncoding, body) == body

(* ProxyRequest: bodyToSend *)
BodyToSend(contentEncoding, body) ==
    IF contentEncoding = "gzip"
    THEN IF GzipHeaderOK(body)
         THEN LET r == Inflate(Tail(body), <<>>)
              IN IF r.ok THEN r.bytes ELSE body
         ELSE body
    ELSE body

----------------------------------------------------------------------------
(* headers *)

(* ProxyRequest: the values of one inbound header added to the outbound request *)
RECURSIVE AddValues(_, _, _)
AddValues(h, key, values) ==
    IF values = <<>> THEN h ELSE AddValues(Add(h, key, values[1]), key, Tail(values))

(* the comparison made on the key as received, without ToLower *)
DroppedCaseSensitive(key) == key \in {"host", "connection", "keep-alive"}

(* ProxyRequest: the inbound headers that are not forwarded *)
Dropped(key) == ToLower(key) \in {"host", "connection", "keep-alive"}

(* ProxyRequest: the loop over c.Request.Header; the keys are distinct, so *)
(* the order in which the map yields them does not change the result      *)
RECURSIVE CopyRequestHeaders(_, _, _)
CopyRequestHeaders(h, src, keys) ==
    IF keys = {} THEN h
    ELSE LET key == CHOOSE k \in keys : TRUE
             next == IF Dropped(key) THEN h
                     ELSE IF ToLower(key) = "accept-encoding"
                          THEN Set(h, "Accept-Encoding", "gzip, deflate")
                     ELSE AddValues(h, key, src[key])
         IN CopyRequestHeaders(next, src, keys \ {key})

(* ProxyRequest: the headers of the outbound request *)
OutboundHeader(header) ==
    LET copied == CopyRequestHeaders(<<>>, header, DOMAIN header)
    IN IF Get(copied, "User-Agent") = ""
       THEN Set(copied, "User-Agent", "Binance-Proxy/1.0")
       ELSE copied

(* ProxyRequest: c.Header is called with every value of one upstream header *)
RECURSIVE CHeaderValues(_, _, _)
CHeaderValues(h, key, values) ==
    IF values = <<>> THEN h
    ELSE CHeaderValues(CHeader(h, key, values[1]), key, Tail(values))

(* ProxyRequest: the upstream headers that are not relayed *)
Skipped(key, contentEncoding) ==
    \/ ToLower(key) = "content-encoding" /\ contentEncoding = "gzip"
    \/ ToLower(key) = "content-length" /\ contentEncoding = "gzip"

(* ProxyRequest: the loop over resp.Header *)
RECURSIVE CopyResponseHeaders(_, _, _, _)
CopyResponseHeaders(h, src, keys, contentEncoding) ==
    IF keys = {} THEN h
    ELSE LET key == CHOOSE k \in keys : TRUE
             next == IF Skipped(key, contentEncoding) THEN h
                     ELSE CHeaderValues(h, key, src[key])
         IN CopyResponseHeaders(next, src, keys \ {key}, contentEncoding)

(* a missing type is always taken to be JSON *)
ResponseContentTypeJSON(header, bodyToSend) ==
    IF Get(header, "Content-Type") # "" THEN Get(header, "Content-Type")
    ELSE "application/json"

(* ProxyRequest: responseContentType *)
ResponseContentType(header, bodyToSend) ==
    IF Get(header, "Content-Type") # "" THEN Get(header, "Content-Type")
    ELSE IF Len(bodyToSend) > 0
         THEN IF IsJSON(bodyToSend) THEN "application/json"
              ELSE "text/plain; charset=utf-8"
    ELSE "application/json"

(* the CORS headers with a method list that leaves out OPTIONS *)
CORSHeadersNoOptions(h) ==
    LET a == CHeader(h, "Access-Control-Allow-Origin", "*")
        b == CHeader(a, "Access-Control-Allow-Methods", "GET, POST, PUT, DELETE")
    IN CHeader(b, "Access-Control-Allow-Headers", "Content-Type, Authorization")

(* the CORS headers set by the middleware and again by ProxyRequest *)
CORSHeaders(h) ==
    LET a == CHeader(h, "Access-Control-Allow-Origin", "*")
        b == CHeader(a, "Access-Control-Allow-Methods", "GET, POST, PUT, DELETE, OPTIONS")
    IN CHeader(b, "Access-Control-Allow-Headers", "Content-Type, Authorization")

(* the length is set only when the upstream declared gzip *)
ContentLengthOnlyForGzip(h, contentEncoding, bodyToSend) ==
    IF contentEncoding = "gzip"
    THEN CHeader(h, "Content-Length", Itoa(Len(bodyToSend)))
    ELSE h

(* ProxyRequest: Content-Length is set when gzip was declared or no length *)
(* is on the response yet                                                  *)
ContentLength(h, contentEncoding, bodyToSend) ==
    IF contentEncoding = "gzip" \/ Get(h, "Content-Length") = ""
    THEN CHeader(h, "Content-Length", Itoa(Len(bodyToSend)))
    ELSE h

(* the relayed headers when the upstream's are copied after the CORS ones  *)
RelayHeaderUpstreamLast(h, respHeader, body) ==
    LET contentEncoding == Get(respHeader, "Content-Encoding")
        bodyToSend == BodyToSend(contentEncoding, body)
        typed == CHeader(h, "Content-Type", ResponseContentType(respHeader, bodyToSend))
        cors == CORSHeaders(typed)
        copied == CopyResponseHeaders(cors, respHeader, DOMAIN respHeader, contentEncoding)
    IN ContentLength(copied, contentEncoding, bodyToSend)

(* ProxyRequest: the headers of the relayed response, from the headers the *)
(* writer already holds                                                    *)
RelayHeader(h, respHeader, body) ==
    LET contentEncoding == Get(respHeader, "Content-Encoding")
        bodyToSend == BodyToSend(contentEncoding, body)
        copied == CopyResponseHeaders(h, respHeader, DOMAIN respHeader, contentEncoding)
        typed == CHeader(copied, "Content-Type", ResponseContentType(respHeader, bodyToSend))
        cors == CORSHeaders(typed)
    IN ContentLength(cors, contentEncoding, bodyToSend)

----------------------------------------------------------------------------
(* the router *)

HealthPath == <<"/", "h", "e", "a", "l", "t", "h">>
TestPath == <<"/", "t", "e", "s", "t">>
SwaggerPrefix == <<"/", "s", "w", "a", "g", "g", "e", "r", "/">>

(* the routes are matched on the path alone, whatever the method *)
MatchRouteAnyMethod(method, path) ==
    IF path = HealthPath THEN "HealthCheck"
    ELSE IF path = TestPath THEN "TestConnection"
    ELSE IF HasPrefix(path, SwaggerPrefix) THEN "swaggerHandler"
    ELSE IF path \in {HealthPath \o <<"/">>, TestPath \o <<"/">>,
                      SubSeq(SwaggerPrefix, 1, Len(SwaggerPrefix) - 1)}
         THEN "redirect"
    ELSE "ProxyRequest"

(* setupRouter: the handler gin selects. Only GET routes are registered;  *)
(* gin.Default redirects a GET path that differs from a route by a        *)
(* trailing slash; everything else falls to NoRoute                       *)
MatchRoute(method, path) ==
    IF method # "GET" THEN "ProxyRequest"
    ELSE IF path = HealthPath THEN "HealthCheck"
    ELSE IF path = TestPath THEN "TestConnection"
    ELSE IF HasPrefix(path, SwaggerPrefix) THEN "swaggerHandler"
    ELSE IF path \in {HealthPath \o <<"/">>, TestPath \o <<"/">>,
                      SubSeq(SwaggerPrefix, 1, Len(SwaggerPrefix) - 1)}
         THEN "redirect"
    ELSE "ProxyRequest"

----------------------------------------------------------------------------
(* state *)

NoJSON == <<>>

NoRequest == [sent |-> FALSE, method |-> "", url |-> <<>>, header |-> <<>>, body |-> ""]

NoResponse == [status |-> 0, header |-> <<>>]

NewWriter ==
    [written |-> FALSE, by |-> "", status |-> 0, header |-> <<>>, body |-> <<>>,
     json |-> NoJSON]

(* c.JSON *)
WriteJSON(w, by, status, json) ==
    [written |-> TRUE, by |-> by, status |-> status,
     header |-> CHeader(w.header, "Content-Type", "application/json; charset=utf-8"),
     body |-> <<>>, json |-> json]

(* main: the upstream base URL when BINANCE_API_URL is not set *)
binanceAPIBaseURL == <<"https://api.binance.com", "/api/v3">>

(* The state when the requests have been accepted: scen gives every       *)
(* request its inbound data and the reply the upstream has for it         *)
Start(scen) ==
    /\ binanceURL = binanceAPIBaseURL
    /\ inbound = [r \in Reqs |-> scen[r].inbound]
    /\ upstream = [r \in Reqs |-> scen[r].upstream]
    /\ pc = [r \in Reqs |-> "start"]
    /\ outbound = [r \in Reqs |-> NoRequest]
    /\ calls = [r \in Reqs |-> 0]
    /\ resp = [r \in Reqs |-> NoResponse]
    /\ writer = [r \in Reqs |-> NewWriter]

----------------------------------------------------------------------------
(* operations *)

(* gin: a GET that misses a route by a trailing slash is redirected before *)
(* any middleware runs                                                     *)
RedirectTrailingSlash(r) ==
    /\ pc[r] = "start"
    /\ MatchRoute(inbound[r].method, inbound[r].path) = "redirect"
    /\ writer' = [writer EXCEPT ![r] =
                    [@ EXCEPT !.written = TRUE, !.by = "redirect", !.status = 301,
                              !.header = CHeader(@, "Location", "redirect")]]
    /\ pc' = [pc EXCEPT ![r] = "done"]
    /\ UNCHANGED <<binanceURL, inbound, upstream, outbound, calls, resp>>

(* the middleware writes into one header map that every response uses *)
CORSMiddlewareSharedHeader(r) ==
    /\ pc[r] = "start"
    /\ MatchRoute(inbound[r].method, inbound[r].path) # "redirect"
    /\ LET shared == [q \in Reqs |->
                        [writer[q] EXCEPT !.header =
                            CHeader(CORSHeaders(@), "Access-Control-Max-Age", "3600")]]
       IN IF inbound[r].method = "OPTIONS"
          THEN /\ writer' = [shared EXCEPT ![r] =
                               [@ EXCEPT !.written = TRUE, !.by = "middleware",
                                         !.status = 200]]
               /\ pc' = [pc EXCEPT ![r] = "done"]
          ELSE /\ writer' = shared
               /\ pc' = [pc EXCEPT ![r] =
                           MatchRoute(inbound[r].method, inbound[r].path)]
    /\ UNCHANGED <<binanceURL, inbound, upstream, outbound, calls, resp>>

(* setupRouter: the CORS middleware, which answers OPTIONS itself *)
CORSMiddleware(r) ==
    /\ pc[r] = "start"
    /\ MatchRoute(inbound[r].method, inbound[r].path) # "redirect"
    /\ LET h == CHeader(CORSHeaders(writer[r].header), "Access-Control-Max-Age", "3600")
       IN IF inbound[r].method = "OPTIONS"
          THEN /\ writer' = [writer EXCEPT ![r] =
                               [@ EXCEPT !.written = TRUE, !.by = "middleware",
                                         !.status = 200, !.header = h]]
               /\ pc' = [pc EXCEPT ![r] = "done"]
          ELSE /\ writer' = [writer EXCEPT ![r] = [@ EXCEPT !.header = h]]
               /\ pc' = [pc EXCEPT ![r] =
                           MatchRoute(inbound[r].method, inbound[r].path)]
    /\ UNCHANGED <<binanceURL, inbound, upstream, outbound, calls, resp>>

(* ProxyServer.HealthCheck *)
HealthCheck(r) ==
    /\ pc[r] = "HealthCheck"
    /\ writer' = [writer EXCEPT ![r] =
                    WriteJSON(@, "HealthCheck", 200,
                              [status |-> "ok", service |-> "binance-proxy",
                               binance_url |-> Str(binanceURL)])]
    /\ pc' = [pc EXCEPT ![r] = "done"]
    /\ UNCHANGED <<binanceURL, inbound, upstream, outbound, calls, resp>>

(* ProxyServer.TestConnection: one GET of <base>/ping *)
TestConnection(r) ==
    /\ pc[r] = "TestConnection"
    /\ calls' = [calls EXCEPT ![r] = @ + 1]
    /\ writer' = [writer EXCEPT ![r] =
                    IF upstream[r].kind = "refused"
                    THEN WriteJSON(@, "TestConnection", 503,
                                   [status |-> "error",
                                    message |-> "Erro ao conectar com Binance"])
                    ELSE WriteJSON(@, "TestConnection", 200,
                                   [status |-> "ok", binance_url |-> Str(binanceURL),
                                    http_status |-> upstream[r].status,
                                    message |-> "Conexao com Binance estabelecida com sucesso"])]
    /\ pc' = [pc EXCEPT ![r] = "done"]
    /\ UNCHANGED <<binanceURL, inbound, upstream, outbound, resp>>

(* setupRouter: swaggerHandler serves the documentation from local files;  *)
(* whether they can be read is not decided by the request                  *)
SwaggerHandler(r) ==
    /\ pc[r] = "swaggerHandler"
    /\ \E status \in {200, 500} :
          writer' = [writer EXCEPT ![r] =
                       [@ EXCEPT !.written = TRUE, !.by = "swaggerHandler",
                                 !.status = status]]
    /\ pc' = [pc EXCEPT ![r] = "done"]
    /\ UNCHANGED <<binanceURL, inbound, upstream, outbound, calls, resp>>

(* ProxyRequest going on to the dispatch after reporting that the request   *)
(* could not be constructed                                                *)
BuildRequestNoReturn(r) ==
    /\ pc[r] = "ProxyRequest"
    /\ LET targetURL == TargetURL(binanceURL, inbound[r].path, inbound[r].query)
       IN /\ writer' = [writer EXCEPT ![r] =
                          IF NewRequestFails(targetURL)
                          THEN WriteJSON(@, "ProxyRequest", 500,
                                         [code |-> -1000,
                                          msg |-> "Erro ao criar requisicao",
                                          message |-> "Erro ao criar requisicao"])
                          ELSE @]
          /\ outbound' = [outbound EXCEPT ![r] =
                            [sent |-> FALSE, method |-> inbound[r].method,
                             url |-> targetURL,
                             header |-> OutboundHeader(inbound[r].header),
                             body |-> inbound[r].body]]
          /\ pc' = [pc EXCEPT ![r] = "dispatch"]
    /\ UNCHANGED <<binanceURL, inbound, upstream, calls, resp>>

(* ProxyRequest up to http.NewRequest and the copy of the headers *)
BuildRequest(r) ==
    /\ pc[r] = "ProxyRequest"
    /\ LET targetURL == TargetURL(binanceURL, inbound[r].path, inbound[r].query)
       IN IF inbound[r].method = "OPTIONS"
          THEN /\ writer' = [writer EXCEPT ![r] =
                               [@ EXCEPT !.written = TRUE, !.by = "ProxyRequest",
                                         !.status = 200,
                                         !.header = CHeader(CORSHeaders(@),
                                                     "Access-Control-Max-Age", "3600")]]
               /\ pc' = [pc EXCEPT ![r] = "done"]
               /\ UNCHANGED outbound
          ELSE IF NewRequestFails(targetURL)
          THEN /\ writer' = [writer EXCEPT ![r] =
                               WriteJSON(@, "ProxyRequest", 500,
                                         [code |-> -1000,
                                          msg |-> "Erro ao criar requisicao",
                                          message |-> "Erro ao criar requisicao"])]
               /\ pc' = [pc EXCEPT ![r] = "done"]
               /\ UNCHANGED outbound
          ELSE /\ outbound' = [outbound EXCEPT ![r] =
                                 [sent |-> FALSE, method |-> inbound[r].method,
                                  url |-> targetURL,
                                  header |-> OutboundHeader(inbound[r].header),
                                  body |-> inbound[r].body]]
               /\ pc' = [pc EXCEPT ![r] = "dispatch"]
               /\ UNCHANGED writer
    /\ UNCHANGED <<binanceURL, inbound, upstream, calls, resp>>

(* p.client.Do(req) tried a second time after a transport error *)
DispatchRetrying(r) ==
    /\ pc[r] = "dispatch"
    /\ calls' = [calls EXCEPT ![r] = @ + 1]
    /\ outbound' = [outbound EXCEPT ![r].sent = TRUE]
    /\ IF upstream[r].kind = "refused"
       THEN IF calls[r] = 0
            THEN UNCHANGED <<pc, writer, resp>>
            ELSE /\ writer' = [writer EXCEPT ![r] =
                                 WriteJSON(@, "ProxyRequest", 502,
                                           [code |-> -1000,
                                            msg |-> "Erro ao conectar com Binance",
                                            message |-> "Erro ao conectar com Binance"])]
                 /\ pc' = [pc EXCEPT ![r] = "done"]
                 /\ UNCHANGED resp
       ELSE /\ resp' = [resp EXCEPT ![r] =
                          [status |-> upstream[r].status, header |-> upstream[r].header]]
            /\ pc' = [pc EXCEPT ![r] = "read"]
            /\ UNCHANGED writer
    /\ UNCHANGED <<binanceURL, inbound, upstream>>

(* ProxyRequest: p.client.Do(req) *)
Dispatch(r) ==
    /\ pc[r] = "dispatch"
    /\ calls' = [calls EXCEPT ![r] = @ + 1]
    /\ outbound' = [outbound EXCEPT ![r].sent = TRUE]
    /\ IF upstream[r].kind = "refused"
       THEN /\ writer' = [writer EXCEPT ![r] =
                            WriteJSON(@, "ProxyRequest", 502,
                                      [code |-> -1000,
                                       msg |-> "Erro ao conectar com Binance",
                                       message |-> "Erro ao conectar com Binance"])]
            /\ pc' = [pc EXCEPT ![r] = "done"]
            /\ UNCHANGED resp
       ELSE /\ resp' = [resp EXCEPT ![r] =
                          [status |-> upstream[r].status, header |-> upstream[r].header]]
            /\ pc' = [pc EXCEPT ![r] = "read"]
            /\ UNCHANGED writer
    /\ UNCHANGED <<binanceURL, inbound, upstream>>

(* the relayed response when every status outside 2xx is reported as 502 *)
RelayedAsGatewayError(w, response, body) ==
    [written |-> TRUE, by |-> "relay",
     status |-> IF response.status < 200 \/ response.status >= 300
                THEN 502 ELSE response.status,
     header |-> RelayHeader(w.header, response.header, body),
     body |-> BodyToSend(Get(response.header, "Content-Encoding"), body),
     json |-> NoJSON]

(* ProxyRequest: what c.Data writes for the upstream response and its body *)
Relayed(w, response, body) ==
    [written |-> TRUE, by |-> "relay",
     status |-> response.status,
     header |-> RelayHeader(w.header, response.header, body),
     body |-> BodyToSend(Get(response.header, "Content-Encoding"), body),
     json |-> NoJSON]

(* a read failure reported after the upstream status and headers were taken *)
RelayReportingLate(r) ==
    /\ pc[r] = "read"
    /\ IF upstream[r].kind = "broken"
       THEN writer' = [writer EXCEPT ![r] =
                         [WriteJSON(Relayed(@, resp[r], <<>>), "ProxyRequest",
                                    resp[r].status,
                                    [code |-> -1001,
                                     msg |-> "Erro ao ler resposta da Binance",
                                     message |-> "Erro ao ler resposta"])
                          EXCEPT !.status = resp[r].status]]
       ELSE writer' = [writer EXCEPT ![r] = Relayed(@, resp[r], upstream[r].body)]
    /\ pc' = [pc EXCEPT ![r] = "done"]
    /\ UNCHANGED <<binanceURL, inbound, upstream, outbound, calls, resp>>

(* ProxyRequest from io.ReadAll(resp.Body) to c.Data *)
Relay(r) ==
    /\ pc[r] = "read"
    /\ IF upstream[r].kind = "broken"
       THEN writer' = [writer EXCEPT ![r] =
                         WriteJSON(@, "ProxyRequest", 500,
                                   [code |-> -1001,
                                    msg |-> "Erro ao ler resposta da Binance",
                                    message |-> "Erro ao ler resposta"])]
       ELSE writer' = [writer EXCEPT ![r] = Relayed(@, resp[r], upstream[r].body)]
    /\ pc' = [pc EXCEPT ![r] = "done"]
    /\ UNCHANGED <<binanceURL, inbound, upstream, outbound, calls, resp>>

Next ==
    \E r \in Reqs :
        \/ RedirectTrailingSlash(r)
        \/ CORSMiddleware(r)
        \/ HealthCheck(r)
        \/ TestConnection(r)
        \/ SwaggerHandler(r)
        \/ BuildRequest(r)
        \/ Dispatch(r)
        \/ Relay(r)

----------------------------------------------------------------------------
(* requests and upstream replies the requests are drawn from *)

Request(method, path, query, header, body) ==
    [method |-> method, path |-> path, query |-> query, header |-> header,
     body |-> body]

Reply(kind, status, header, body) ==
    [kind |-> kind, status |-> status, header |-> header, body |-> body]

NoQuery == <<>>
NoHeader == <<>>

TickerPath == <<"/", "t", "i", "c", "k", "e", "r">>
KlinesPath == <<"/", "k", "l", "i", "n", "e", "s">>

PlainGet == Request("GET", TickerPath, NoQuery, NoHeader, "")

PlainReply ==
    Reply("ok", 200, [k \in {"Content-Type"} |-> <<"application/json">>], <<"{", "}">>)

Refused == Reply("refused", 0, NoHeader, <<>>)

Broken == Reply("broken", 200, [k \in {"Content-Type"} |-> <<"application/json">>], <<>>)

Inbounds ==
    { Request("OPTIONS", TickerPath, NoQuery, NoHeader, ""),
      Request("OPTIONS", HealthPath, NoQuery, NoHeader, ""),
      Request("OPTIONS", TestPath, NoQuery, NoHeader, ""),
      Request("GET", HealthPath, NoQuery, NoHeader, ""),
      Request("GET", TestPath, NoQuery, NoHeader, ""),
      Request("GET", SwaggerPrefix \o <<"d">>, NoQuery, NoHeader, ""),
      Request("GET", HealthPath \o <<"/">>, NoQuery, NoHeader, ""),
      Request("POST", HealthPath, NoQuery, NoHeader, "payload"),
      PlainGet,
      Request("GET", <<"/", "a", "p", "i">> \o TickerPath,
              [k \in {"symbol"} |-> << <<"B">> >>],
              [k \in {"Accept-Encoding", "User-Agent"} |->
                  IF k = "User-Agent" THEN <<"curl">> ELSE <<"br">>], ""),
      Request("GET", KlinesPath,
              [k \in {"symbols", "interval"} |->
                  IF k = "symbols" THEN << <<"B", ",", "E">> >> ELSE << <<"1", "h">> >>],
              NoHeader, ""),
      Request("POST", <<"/", "o", "r", "d", "e", "r">>, NoQuery,
              [k \in {"Host", "Connection", "Authorization"} |->
                  IF k = "Authorization" THEN <<"key">> ELSE <<"x">>], "payload"),
      Request("GET", <<"/", "%", "z", "z">>, NoQuery, NoHeader, "") }

Upstreams ==
    { Refused, Broken, PlainReply,
      Reply("ok", 404, NoHeader, <<"x">>),
      Reply("ok", 200,
            [k \in {"Content-Encoding", "Content-Length"} |->
                IF k = "Content-Encoding" THEN <<"gzip">> ELSE <<"4">>],
            <<"GZ", "{", "}", "EOS">>),
      Reply("ok", 200,
            [k \in {"Content-Encoding", "Content-Length"} |->
                IF k = "Content-Encoding" THEN <<"gzip">> ELSE <<"2">>],
            <<"{", "}">>),
      Reply("ok", 500,
            [k \in {"Access-Control-Allow-Origin", "Content-Type"} |->
                IF k = "Content-Type" THEN <<"text/html">> ELSE <<"https://binance.com">>],
            <<"x">>) }

Scenario(in, up) == [inbound |-> in, upstream |-> up]

Catalogue == {Scenario(in, up) : in \in Inbounds, up \in Upstreams}

(* a few scenarios that between them take every route of the router *)
Basics ==
    {Scenario(in, PlainReply) :
        in \in {i \in Inbounds : i.path \in {HealthPath, TestPath, HealthPath \o <<"/">>,
                                             SwaggerPrefix \o <<"d">>}}}

(* request r1 drawn from S, request r2 an ordinary GET handled next to it *)
StartWith(S) ==
    \E s \in S \cup Basics :
        Start([r \in Reqs |-> IF r = "r1" THEN s ELSE Scenario(PlainGet, PlainReply)])

Init == \E s1 \in Catalogue, s2 \in Catalogue :
            Start([r \in Reqs |-> IF r = "r1" THEN s1 ELSE s2])

Spec == Init /\ [][Next]_vars

----------------------------------------------------------------------------
(* upstream bodies *)

MaxBodyLen == 4

SeqsUpTo(S, n) == UNION {[1..k -> S] : k \in 0..n}

BodyBytes == {"GZ", "EOS", "D", "{", "}"}

(* the body is a complete gzip stream *)
ValidGzip(body) == GzipHeaderOK(body) /\ Inflate(Tail(body), <<>>).ok

Gunzip(body) == Inflate(Tail(body), <<>>).bytes

EncodingHeaders ==
    { NoHeader,
      [k \in {"Content-Encoding"} |-> <<"gzip">>],
      [k \in {"Content-Encoding", "Content-Length"} |->
          IF k = "Content-Encoding" THEN <<"gzip">> ELSE <<"9">>],
      [k \in {"Content-Encoding", "Content-Length"} |->
          IF k = "Content-Encoding" THEN <<"br">> ELSE <<"9">>] }

BodyScenarios ==
    {Scenario(PlainGet, Reply("ok", status, header, body)) :
        status \in {200}, header \in EncodingHeaders,
        body \in SeqsUpTo(BodyBytes, MaxBodyLen)}

InitBody == StartWith(BodyScenarios)

SpecBody == InitBody /\ [][Next]_vars

(* request r has been answered with the upstream's response *)
RelayedTo(r) == pc[r] = "done" /\ writer[r].by = "relay"

(* the upstream response to r declares gzip *)
DeclaresGzip(r) == Get(upstream[r].header, "Content-Encoding") = "gzip"

(* C1: when the upstream declares Content-Encoding: gzip and the body is   *)
(* not valid gzip, the response has the upstream status and the upstream   *)
(* body, still carries the upstream's Content-Encoding header, and is not  *)
(* a proxy error.                                                          *)
C1_InvalidGzipKeepsEncoding ==
    \A r \in Reqs :
        (pc[r] = "done" /\ outbound[r].sent /\ upstream[r].kind = "ok"
         /\ DeclaresGzip(r) /\ ~ValidGzip(upstream[r].body))
        => /\ writer[r].by = "relay"
           /\ writer[r].status = upstream[r].status
           /\ writer[r].body = upstream[r].body
           /\ "Content-Encoding" \in DOMAIN writer[r].header
           /\ writer[r].header["Content-Encoding"] = upstream[r].header["Content-Encoding"]

(* C2: when the upstream declares Content-Encoding: gzip and the body is   *)
(* valid gzip, the response body is the decompressed bytes, there is no    *)
(* Content-Encoding header, and Content-Length is the decompressed length. *)
C2_ValidGzipDecompressed ==
    \A r \in Reqs :
        (RelayedTo(r) /\ DeclaresGzip(r) /\ ValidGzip(upstream[r].body))
        => /\ writer[r].body = Gunzip(upstream[r].body)
           /\ "Content-Encoding" \notin DOMAIN writer[r].header
           /\ "Content-Length" \in DOMAIN writer[r].header
           /\ writer[r].header["Content-Length"] = <<Itoa(Len(Gunzip(upstream[r].body)))>>
           /\ Len(writer[r].body) # Len(upstream[r].body)

C2_Witness ==
    \E r \in Reqs :
        /\ RelayedTo(r) /\ DeclaresGzip(r) /\ ValidGzip(upstream[r].body)
        /\ "Content-Length" \in DOMAIN upstream[r].header
        /\ writer[r].body = <<"{", "}">>

(* C3: an OPTIONS request, on any path, causes no upstream dispatch and is *)
(* answered with status 200, the three CORS headers and a max-age.         *)
C3_PreflightNeverDispatched ==
    \A r \in Reqs :
        inbound[r].method = "OPTIONS"
        => /\ calls[r] = 0
           /\ outbound[r] = NoRequest
           /\ pc[r] \in {"start", "done"}
           /\ pc[r] = "done"
              => /\ writer[r].written
                 /\ writer[r].status = 200
                 /\ writer[r].header["Access-Control-Allow-Origin"] = <<"*">>
                 /\ writer[r].header["Access-Control-Allow-Methods"]
                       = <<"GET, POST, PUT, DELETE, OPTIONS">>
                 /\ writer[r].header["Access-Control-Allow-Headers"]
                       = <<"Content-Type, Authorization">>
                 /\ "Access-Control-Max-Age" \in DOMAIN writer[r].header

C3_Witness ==
    \E r \in Reqs :
        /\ inbound[r].method = "OPTIONS" /\ inbound[r].path = HealthPath
        /\ pc[r] = "done" /\ writer[r].status = 200

(* C4: a transport failure of the dispatch is answered at once with 502    *)
(* and code -1000, and no request is dispatched more than once.            *)
C4_TransportFailureNotRetried ==
    \A r \in Reqs :
        /\ calls[r] <= 1
        /\ (outbound[r].sent /\ upstream[r].kind = "refused")
           => /\ pc[r] = "done"
              /\ calls[r] = 1
              /\ writer[r].written
              /\ writer[r].status = 502
              /\ writer[r].json.code = -1000

C4_Witness ==
    \E r \in Reqs :
        /\ outbound[r].sent /\ upstream[r].kind = "refused"
        /\ pc[r] = "done" /\ writer[r].status = 502

----------------------------------------------------------------------------
(* inbound headers *)

MaxValues == 2

(* the value lists a repeated header can carry *)
ValueLists(values) == UNION {[1..k -> values] : k \in 1..MaxValues}

(* a multimap that gives every key of picks the list chosen for it, and    *)
(* leaves out the keys whose choice is the empty list                      *)
HeaderOf(picks) == [k \in {x \in DOMAIN picks : picks[x] # <<>>} |-> picks[k]]

InboundHeaders ==
    {HeaderOf([k \in {"Host", "Connection", "Keep-Alive", "Accept-Encoding",
                      "User-Agent", "Authorization"} |->
                 CASE k = "Host" -> host
                   [] k = "Connection" -> conn
                   [] k = "Keep-Alive" -> keep
                   [] k = "Accept-Encoding" -> enc
                   [] k = "User-Agent" -> agent
                   [] OTHER -> auth]) :
        host \in {<<>>, <<"proxy.local">>},
        conn \in {<<>>, <<"keep-alive">>},
        keep \in {<<>>, <<"timeout=5">>},
        enc \in {<<>>} \cup ValueLists({"br", "gzip, deflate"}),
        agent \in {<<>>} \cup ValueLists({"", "curl"}),
        auth \in {<<>>} \cup ValueLists({"key"})}

HeaderScenarios ==
    {Scenario(Request("GET", TickerPath, NoQuery, header, ""), PlainReply) :
        header \in InboundHeaders}

InitHeaders == StartWith(HeaderScenarios)

SpecHeaders == InitHeaders /\ [][Next]_vars

(* the outbound request of r has been built *)
Built(r) == outbound[r] # NoRequest

(* C5: the outbound request carries no Host, Connection or Keep-Alive      *)
(* header, and when the inbound request has an Accept-Encoding header the  *)
(* outbound one is the single value "gzip, deflate".                       *)
C5_HopHeadersDropped ==
    \A r \in Reqs :
        Built(r)
        => /\ DOMAIN outbound[r].header
                \cap {"Host", "Connection", "Keep-Alive",
                      "host", "connection", "keep-alive"} = {}
           /\ "Accept-Encoding" \in DOMAIN inbound[r].header
              => /\ "Accept-Encoding" \in DOMAIN outbound[r].header
                 /\ outbound[r].header["Accept-Encoding"] = <<"gzip, deflate">>

C5_Witness ==
    \E r \in Reqs :
        /\ outbound[r].sent
        /\ {"Host", "Connection", "Keep-Alive"} \subseteq DOMAIN inbound[r].header
        /\ "Accept-Encoding" \in DOMAIN inbound[r].header
        /\ Len(inbound[r].header["Accept-Encoding"]) > 1
        /\ inbound[r].header["Accept-Encoding"][1] = "br"
        /\ "Authorization" \in DOMAIN outbound[r].header

----------------------------------------------------------------------------
(* inbound paths *)

MaxPathLen == 5

PathChars == {"/", "a", "p", "i", "k"}

(* URL.Path of a request the server accepted: empty, or starting with "/" *)
Paths == {<<>>} \cup {<<"/">> \o rest : rest \in SeqsUpTo(PathChars, MaxPathLen - 1)}

PathScenarios ==
    {Scenario(Request("GET", path, NoQuery, NoHeader, ""), PlainReply) : path \in Paths}

InitPath == StartWith(PathScenarios)

SpecPath == InitPath /\ [][Next]_vars

ApiSegment == <<"/", "a", "p", "i">>

(* the path begins with the segment "api": it is "/api" or starts "/api/" *)
HasApiSegment(path) == path = ApiSegment \/ HasPrefix(path, ApiSegment \o <<"/">>)

(* the path with a leading "/" guaranteed *)
Rooted(path) == IF path # <<>> /\ path[1] = "/" THEN path ELSE <<"/">> \o path

(* the path without its first four characters *)
WithoutApi(path) == SubSeq(path, 5, Len(path))

(* the target is the base URL, then the path, then nothing or a query *)
TargetsPath(url, base, path) ==
    /\ HasPrefix(url, base \o path)
    /\ Len(url) > Len(base \o path) => url[Len(base \o path) + 1] = "?"

(* C6: the outbound target is the base URL followed by the inbound path    *)
(* without a leading "/api" segment; a path such as /apikeys, whose first  *)
(* segment only begins with "api", is not stripped.                        *)
C6_ApiSegmentStripped ==
    \A r \in Reqs :
        Built(r)
        => TargetsPath(outbound[r].url, binanceURL,
                       Rooted(IF HasApiSegment(inbound[r].path)
                              THEN WithoutApi(inbound[r].path)
                              ELSE inbound[r].path))

----------------------------------------------------------------------------
(* the symbols parameter as the upstream reads it *)

MaxSymLen == 4

SymChars == {"[", ",", " ", "B", "\""}

SymbolsScenarios ==
    {Scenario(Request("GET", KlinesPath, query, NoHeader, ""), PlainReply) :
        query \in {[k \in {"symbols", "interval"} |->
                       IF k = "symbols" THEN <<v>> ELSE << <<"B">> >>] :
                   v \in SeqsUpTo(SymChars, MaxSymLen)}}

InitSymbols == StartWith(SymbolsScenarios)

SpecSymbols == InitSymbols /\ [][Next]_vars

Min(S) == CHOOSE x \in S : \A y \in S : x <= y
Max(S) == CHOOSE x \in S : \A y \in S : x >= y

(* the j-th of the fields that the separator sep cuts s into *)
Field(s, sep, j) ==
    LET pos == {k \in 1..Len(s) :
                  s[k] # sep /\ Cardinality({m \in 1..k : s[m] = sep}) = j - 1}
    IN IF pos = {} THEN <<>> ELSE SubSeq(s, Min(pos), Max(pos))

Fields(s, sep) ==
    [j \in 1..(Cardinality({k \in 1..Len(s) : s[k] = sep}) + 1) |-> Field(s, sep, j)]

(* s without the blanks at its two ends *)
Trimmed(s) ==
    LET pos == {k \in 1..Len(s) : s[k] # " "}
    IN IF pos = {} THEN <<>> ELSE SubSeq(s, Min(pos), Max(pos))

(* the query string of a URL: what follows its first "?" *)
RawQuery(url) ==
    LET marks == {k \in 1..Len(url) : url[k] = "?"}
    IN IF marks = {} THEN <<>> ELSE SubSeq(url, Min(marks) + 1, Len(url))

(* percent-decoding of a query component *)
RECURSIVE Unescape(_)
Unescape(s) ==
    IF s = <<>> THEN <<>>
    ELSE IF s[1] = "+" THEN <<" ">> \o Unescape(Tail(s))
    ELSE IF s[1] = "%" /\ Len(s) >= 3
         THEN << CASE <<s[2], s[3]>> = <<"5", "B">> -> "["
                   [] <<s[2], s[3]>> = <<"5", "D">> -> "]"
                   [] <<s[2], s[3]>> = <<"2", "C">> -> ","
                   [] <<s[2], s[3]>> = <<"2", "2">> -> "\""
                   [] <<s[2], s[3]>> = <<"5", "C">> -> "\\"
                   [] <<s[2], s[3]>> = <<"2", "6">> -> "&"
                   [] <<s[2], s[3]>> = <<"3", "D">> -> "="
                   [] <<s[2], s[3]>> = <<"2", "B">> -> "+"
                   [] <<s[2], s[3]>> = <<"2", "5">> -> "%"
                   [] OTHER -> "?" >> \o Unescape(SubSeq(s, 4, Len(s)))
    ELSE <<s[1]>> \o Unescape(Tail(s))

PairKey(pair) ==
    LET eq == {k \in 1..Len(pair) : pair[k] = "="}
    IN IF eq = {} THEN Unescape(pair) ELSE Unescape(SubSeq(pair, 1, Min(eq) - 1))

PairValue(pair) ==
    LET eq == {k \in 1..Len(pair) : pair[k] = "="}
    IN IF eq = {} THEN <<>> ELSE Unescape(SubSeq(pair, Min(eq) + 1, Len(pair)))

(* the values, in order, that the URL's query string gives the key *)
Received(url, key) ==
    LET pairs == Fields(RawQuery(url), "&")
        IsKey(pair) == pair # <<>> /\ PairKey(pair) = key
        mine == SelectSeq(pairs, IsKey)
    IN [i \in 1..Len(mine) |-> PairValue(mine[i])]

SymbolsKey == <<"s", "y", "m", "b", "o", "l", "s">>

(* reading a JSON array of strings *)
RECURSIVE ParseElement(_, _)
RECURSIVE ParseString(_, _, _)
RECURSIVE ParseNext(_, _)

ParseFailed == [ok |-> FALSE, list |-> <<>>]

ParseElement(s, acc) ==
    IF s # <<>> /\ s[1] = "\"" THEN ParseString(Tail(s), <<>>, acc) ELSE ParseFailed

ParseString(s, cur, acc) ==
    IF s = <<>> THEN ParseFailed
    ELSE IF s[1] = "\\"
         THEN IF Len(s) >= 2 /\ s[2] \in {"\"", "\\"}
              THEN ParseString(SubSeq(s, 3, Len(s)), Append(cur, s[2]), acc)
              ELSE ParseFailed
    ELSE IF s[1] = "\"" THEN ParseNext(Tail(s), Append(acc, cur))
    ELSE ParseString(Tail(s), Append(cur, s[1]), acc)

ParseNext(s, acc) ==
    IF s = <<"]">> THEN [ok |-> TRUE, list |-> acc]
    ELSE IF s # <<>> /\ s[1] = "," THEN ParseElement(Tail(s), acc)
    ELSE ParseFailed

ParseArray(s) ==
    IF s = <<"[", "]">> THEN [ok |-> TRUE, list |-> <<>>]
    ELSE IF s # <<>> /\ s[1] = "[" THEN ParseElement(Tail(s), <<>>)
    ELSE ParseFailed

(* the inbound request of r has a symbols parameter *)
HasSymbols(r) == "symbols" \in DOMAIN inbound[r].query

FirstSymbols(r) == inbound[r].query["symbols"][1]

(* C7: a symbols value that does not start with "[" reaches the upstream   *)
(* as one value, the JSON array of its comma-separated fields, in order    *)
(* and each trimmed.                                                       *)
C7_SymbolsBecomeJSONArray ==
    \A r \in Reqs :
        (Built(r) /\ HasSymbols(r) /\ ~HasPrefix(FirstSymbols(r), <<"[">>))
        => LET got == Received(outbound[r].url, SymbolsKey)
           IN /\ Len(got) = 1
              /\ got[1] # FirstSymbols(r)
              /\ ParseArray(got[1]).ok
              /\ ParseArray(got[1]).list
                    = [j \in 1..Len(Fields(FirstSymbols(r), ",")) |->
                          Trimmed(Fields(FirstSymbols(r), ",")[j])]

C7_Witness ==
    \E r \in Reqs :
        /\ outbound[r].sent /\ HasSymbols(r)
        /\ FirstSymbols(r) = <<"B", ",", " ", "B">>
        /\ Received(outbound[r].url, SymbolsKey)
              = << <<"[", "\"", "B", "\"", ",", "\"", "B", "\"", "]">> >>

(* C8: a symbols value that starts with "[" reaches the upstream unchanged, *)
(* and the value the upstream receives is a fixed point of the             *)
(* normalization, whatever the inbound value was.                          *)
C8_SymbolsIdempotent ==
    \A r \in Reqs :
        (Built(r) /\ HasSymbols(r))
        => LET got == Received(outbound[r].url, SymbolsKey)
           IN /\ Len(got) = 1
              /\ HasPrefix(FirstSymbols(r), <<"[">>) => got[1] = FirstSymbols(r)
              /\ NormalizeSymbols(got[1]) = got[1]

C8_Witness ==
    \E r \in Reqs :
        /\ outbound[r].sent /\ HasSymbols(r)
        /\ FirstSymbols(r) = <<" ", "[">>
        /\ Received(outbound[r].url, SymbolsKey) = << <<"[", "\"", "[", "\"", "]">> >>

----------------------------------------------------------------------------
(* upstream responses *)

Statuses == {200, 201, 404, 429, 500, 502}

UpstreamHeaders ==
    {HeaderOf([k \in {"Content-Encoding", "Content-Type", "Access-Control-Allow-Origin",
                      "Access-Control-Allow-Methods", "Access-Control-Allow-Headers"} |->
                 CASE k = "Content-Encoding" -> enc
                   [] k = "Content-Type" -> type
                   [] k = "Access-Control-Allow-Origin" -> origin
                   [] k = "Access-Control-Allow-Methods" -> methods
                   [] OTHER -> headers]) :
        enc \in {<<>>, <<"gzip">>, <<"br">>},
        type \in {<<>>, <<"text/html">>},
        origin \in {<<>>} \cup ValueLists({"", "https://binance.com"}),
        methods \in {<<>>, <<"GET">>},
        headers \in {<<>>, <<"X-Mbx-Apikey">>}}

UpstreamScenarios ==
    {Scenario(PlainGet, Reply("ok", status, header, body)) :
        status \in Statuses, header \in UpstreamHeaders,
        body \in {<<>>, <<"{", "}">>, <<"GZ", "{", "}", "EOS">>, <<"GZ", "{">>}}
    \cup {Scenario(in, up) : in \in {PlainGet, Request("GET", <<"/", "%", "z", "z">>,
                                                       NoQuery, NoHeader, "")},
                             up \in {Refused, Broken}}

InitUpstream == StartWith(UpstreamScenarios)

SpecUpstream == InitUpstream /\ [][Next]_vars

(* C9: when the upstream's response was read, the status of the response   *)
(* to the client is the upstream's status, whatever it is and whatever     *)
(* happened to the body; a response generated by the proxy itself follows  *)
(* only a failure of its own.                                              *)
C9_StatusPassthrough ==
    \A r \in Reqs :
        pc[r] = "done"
        => /\ (outbound[r].sent /\ upstream[r].kind = "ok")
              => /\ writer[r].by = "relay"
                 /\ writer[r].status = upstream[r].status
                 /\ writer[r].json = NoJSON
           /\ (writer[r].by = "ProxyRequest" /\ writer[r].status \in {500, 502})
              => \/ ~Built(r)
                 \/ upstream[r].kind \in {"refused", "broken"}

C9_Witness ==
    \E r \in Reqs :
        /\ RelayedTo(r) /\ upstream[r].status = 502 /\ writer[r].status = 502
        /\ DeclaresGzip(r) /\ ~ValidGzip(upstream[r].body)

(* C10: every relayed response carries the proxy's three CORS headers with *)
(* the proxy's values, whatever the upstream sent for them.                *)
C10_CORSReasserted ==
    \A r \in Reqs :
        RelayedTo(r)
        => /\ {"Access-Control-Allow-Origin", "Access-Control-Allow-Methods",
               "Access-Control-Allow-Headers"} \subseteq DOMAIN writer[r].header
           /\ writer[r].header["Access-Control-Allow-Origin"] = <<"*">>
           /\ writer[r].header["Access-Control-Allow-Methods"]
                 = <<"GET, POST, PUT, DELETE, OPTIONS">>
           /\ writer[r].header["Access-Control-Allow-Headers"]
                 = <<"Content-Type, Authorization">>

C10_Witness ==
    \E r \in Reqs :
        /\ RelayedTo(r)
        /\ "Access-Control-Allow-Origin" \in DOMAIN upstream[r].header
        /\ upstream[r].header["Access-Control-Allow-Origin"]
              = <<"https://binance.com", "">>
        /\ "Access-Control-Allow-Methods" \in DOMAIN upstream[r].header
        /\ writer[r].header["Access-Control-Allow-Origin"] = <<"*">>
----------------------------------------------------------------------------
(* failures of the proxy itself *)

MaxEscapeLen == 3

EscapeChars == {"%", "a", "z"}

(* paths with and without well-formed percent escapes *)
EscapePaths == {<<"/">> \o rest : rest \in SeqsUpTo(EscapeChars, MaxEscapeLen)}

FailureReplies ==
    {Reply(kind, status, header, <<"{", "}">>) :
        kind \in {"ok", "refused", "broken"},
        status \in {200, 404},
        header \in {NoHeader,
                    [k \in {"Set-Cookie", "Content-Type"} |->
                        IF k = "Set-Cookie" THEN <<"session">> ELSE <<"text/html">>]}}

FailureScenarios ==
    {Scenario(Request("GET", path, NoQuery, NoHeader, ""), up) :
        path \in EscapePaths, up \in FailureReplies}

InitFailure ==
    \E s \in FailureScenarios \cup Basics,
       t \in {Scenario(Request("GET", path, NoQuery, NoHeader, ""), PlainReply) :
                 path \in {TickerPath, <<"/", "%", "z", "z">>}} :
        Start([r \in Reqs |-> IF r = "r1" THEN s ELSE t])

SpecFailure == InitFailure /\ [][Next]_vars

(* the path holds a "%" that is not followed by two hexadecimal digits *)
BadEscape(path) ==
    \E i \in 1..Len(path) :
        /\ path[i] = "%"
        /\ \/ i + 2 > Len(path)
           \/ \E j \in {i + 1, i + 2} : path[j] \notin HexDigits

(* the headers a response holds when only the middleware and c.JSON set any *)
ProxyOnlyHeaders ==
    {"Access-Control-Allow-Origin", "Access-Control-Allow-Methods",
     "Access-Control-Allow-Headers", "Access-Control-Max-Age", "Content-Type"}

(* C11: a failure of the proxy is answered with a JSON body of code, msg   *)
(* and message; a request that cannot be constructed gives 500 and -1000   *)
(* without a dispatch, an unreadable upstream body gives 500 and -1001     *)
(* with neither the upstream status nor an upstream header.                *)
C11_ProxyErrors ==
    \A r \in Reqs :
        (pc[r] = "done" /\ writer[r].by \in {"relay", "ProxyRequest"})
        => /\ BadEscape(inbound[r].path)
              => /\ writer[r].status = 500
                 /\ DOMAIN writer[r].json = {"code", "msg", "message"}
                 /\ writer[r].json.code = -1000
                 /\ calls[r] = 0 /\ ~outbound[r].sent
           /\ (~BadEscape(inbound[r].path) /\ upstream[r].kind = "broken")
              => /\ writer[r].status = 500
                 /\ DOMAIN writer[r].json = {"code", "msg", "message"}
                 /\ writer[r].json.code = -1001
                 /\ DOMAIN writer[r].header = ProxyOnlyHeaders
                 /\ writer[r].header["Content-Type"]
                       = <<"application/json; charset=utf-8">>
           /\ (~BadEscape(inbound[r].path) /\ upstream[r].kind = "refused")
              => /\ writer[r].status = 502
                 /\ DOMAIN writer[r].json = {"code", "msg", "message"}
           /\ (~BadEscape(inbound[r].path) /\ upstream[r].kind = "ok")
              => writer[r].json = NoJSON

C11_Witness ==
    \E r, q \in Reqs :
        /\ pc[r] = "done" /\ BadEscape(inbound[r].path) /\ writer[r].status = 500
        /\ pc[q] = "done" /\ upstream[q].kind = "broken" /\ upstream[q].status = 404
        /\ "Set-Cookie" \in DOMAIN upstream[q].header
        /\ writer[q].json.code = -1001
----------------------------------------------------------------------------
(* one request, one response *)

(* every handler that can take a step eventually takes one: a goroutine is *)
(* scheduled, and the calls it waits on end within the client's timeout    *)
FairFailure == SpecFailure /\ WF_vars(Next)

(* the request is one the pipeline sends upstream *)
Forwarded(r) ==
    /\ inbound[r].method # "OPTIONS"
    /\ MatchRoute(inbound[r].method, inbound[r].path) = "ProxyRequest"
    /\ ~BadEscape(inbound[r].path)

----------------------------------------------------------------------------
(* the other query parameters *)

MaxQueryLen == 2

QueryChars == {"B", "&", "+"}

(* one value, a repeated value, and two different values in either order *)
QueryLists ==
    UNION {{<<v>>, <<v, v>>, <<v, <<"B">> >>, << <<"B">>, v>>} :
             v \in SeqsUpTo(QueryChars, MaxQueryLen)}

Queries ==
    {HeaderOf([k \in {"interval", "symbol", "symbols"} |->
                 CASE k = "interval" -> interval
                   [] k = "symbol" -> symbol
                   [] OTHER -> symbols]) :
        interval \in {<<>>, << <<"1", "h">> >>, << <<"1", "h">>, <<"1", "d">> >>},
        symbol \in {<<>>} \cup QueryLists,
        symbols \in {<<>>, << <<"B", ",", "E">> >>}}

QueryScenarios ==
    {Scenario(Request("GET", KlinesPath, query, NoHeader, ""), PlainReply) :
        query \in Queries}

InitQuery == StartWith(QueryScenarios)

SpecQuery == InitQuery /\ [][Next]_vars

(* the values of the key in the multimap, none when the key is absent *)
ValuesOf(query, key) == IF key \in DOMAIN query THEN query[key] ELSE <<>>

(* C13: every query parameter other than symbols reaches the upstream with *)
(* the same values in the same order, and the target has a "?" exactly     *)
(* when the inbound query has a parameter.                                 *)
C13_OtherParametersUnchanged ==
    \A r \in Reqs :
        Built(r)
        => /\ \A key \in {"interval", "symbol"} :
                 Received(outbound[r].url, KeyChars(key)) = ValuesOf(inbound[r].query, key)
           /\ (\E k \in 1..Len(outbound[r].url) : outbound[r].url[k] = "?")
                 <=> DOMAIN inbound[r].query # {}

C13_Witness ==
    \E r \in Reqs :
        /\ outbound[r].sent
        /\ DOMAIN inbound[r].query = {"interval", "symbol", "symbols"}
        /\ inbound[r].query["symbol"] = << <<"B", "&">>, <<"B">> >>
        /\ Len(inbound[r].query["interval"]) = 2
----------------------------------------------------------------------------
(* repeated upstream headers *)

CookieHeaders ==
    {HeaderOf([k \in {"Content-Encoding", "Set-Cookie", "X-Mbx-Used-Weight"} |->
                 CASE k = "Content-Encoding" -> enc
                   [] k = "Set-Cookie" -> cookie
                   [] OTHER -> weight]) :
        enc \in {<<>>, <<"gzip">>},
        cookie \in {<<>>} \cup ValueLists({"a=1", "b=2"}),
        weight \in {<<>>, <<"5">>}}

CookieScenarios ==
    {Scenario(PlainGet, Reply("ok", 200, header, body)) :
        header \in CookieHeaders,
        body \in {<<"{", "}">>, <<"GZ", "{", "}", "EOS">>}}

InitCookie == StartWith(CookieScenarios)

SpecCookie == InitCookie /\ [][Next]_vars

(* the headers the proxy sets itself on a relayed response *)
SetByProxy ==
    {"content-encoding", "content-length", "content-type",
     "access-control-allow-origin", "access-control-allow-methods",
     "access-control-allow-headers"}

(* C14: every upstream response header other than content-encoding and     *)
(* content-length (and the headers the proxy sets itself) is relayed to    *)
(* the client with all of its values in their upstream order.              *)
C14_AllValuesRelayed ==
    \A r \in Reqs :
        RelayedTo(r)
        => \A key \in DOMAIN upstream[r].header :
              ToLower(key) \notin SetByProxy
              => /\ key \in DOMAIN writer[r].header
                 /\ writer[r].header[key] = upstream[r].header[key]
----------------------------------------------------------------------------
(* the length of the relayed body *)

(* C15: every relayed response carries a Content-Length header; when the   *)
(* upstream declared gzip or supplied no Content-Length its value is the   *)
(* number of bytes of the relayed body, and after a failed decompression   *)
(* the relayed body is the upstream's bytes.                               *)
C15_ContentLengthOfRelayedBody ==
    \A r \in Reqs :
        RelayedTo(r)
        => /\ "Content-Length" \in DOMAIN writer[r].header
           /\ (DeclaresGzip(r) \/ "Content-Length" \notin DOMAIN upstream[r].header)
              => writer[r].header["Content-Length"] = <<Itoa(Len(writer[r].body))>>
           /\ (DeclaresGzip(r) /\ ~ValidGzip(upstream[r].body))
              => writer[r].body = upstream[r].body

C15_Witness ==
    \E r1 \in Reqs, r2 \in Reqs :
        /\ RelayedTo(r1) /\ DeclaresGzip(r1) /\ ~ValidGzip(upstream[r1].body)
        /\ "Content-Length" \in DOMAIN upstream[r1].header
        /\ Len(upstream[r1].body) = 3
        /\ writer[r1].header["Content-Length"] = <<"3">>
        /\ RelayedTo(r2) /\ "Content-Length" \notin DOMAIN upstream[r2].header
----------------------------------------------------------------------------
(* the type of the relayed body *)

TypeHeaders ==
    {HeaderOf([k \in {"Content-Encoding", "Content-Type"} |->
                 IF k = "Content-Encoding" THEN enc ELSE type]) :
        enc \in {<<>>, <<"gzip">>},
        type \in {<<>>} \cup ValueLists({"", "text/html"})}

TypeScenarios ==
    {Scenario(PlainGet, Reply("ok", 200, header, body)) :
        header \in TypeHeaders,
        body \in {<<>>, <<"{", "}">>, <<"{">>, <<"GZ", "{", "}", "EOS">>,
                  <<"GZ", "{", "EOS">>, <<"GZ", "EOS">>, <<"GZ", "{">>}}

InitType == StartWith(TypeScenarios)

SpecType == InitType /\ [][Next]_vars

(* C16: the Content-Type of a relayed response is the upstream's when the  *)
(* upstream supplied one; otherwise it is application/json when the        *)
(* relayed body is empty or is JSON and text/plain; charset=utf-8 when it  *)
(* is not; it is never empty.                                              *)
C16_ContentTypeInferred ==
    \A r \in Reqs :
        RelayedTo(r)
        => LET supplied == Get(upstream[r].header, "Content-Type")
               expected == IF supplied # "" THEN supplied
                           ELSE IF writer[r].body = <<>> \/ IsJSON(writer[r].body)
                                THEN "application/json"
                           ELSE "text/plain; charset=utf-8"
           IN /\ "Content-Type" \in DOMAIN writer[r].header
              /\ writer[r].header["Content-Type"] = <<expected>>
              /\ expected # ""

C16_Witness ==
    \E r1 \in Reqs, r2 \in Reqs :
        /\ RelayedTo(r1) /\ DeclaresGzip(r1)
        /\ "Content-Type" \notin DOMAIN upstream[r1].header
        /\ upstream[r1].body = <<"GZ", "{", "EOS">>
        /\ writer[r1].header["Content-Type"] = <<"text/plain; charset=utf-8">>
        /\ RelayedTo(r2) /\ writer[r2].header["Content-Type"] = <<"application/json">>
----------------------------------------------------------------------------
(* the inbound headers on the outbound request *)

(* the inbound header is one the proxy forwards as it is *)
Forwardable(key) ==
    ToLower(key) \notin {"host", "connection", "keep-alive", "accept-encoding"}

(* the header carries no value that is not empty *)
NoAgent(header) ==
    \/ "User-Agent" \notin DOMAIN header
    \/ \A i \in 1..Len(header["User-Agent"]) : header["User-Agent"][i] = ""

(* C17: every inbound header other than host, connection, keep-alive and   *)
(* accept-encoding is on the outbound request with the same values in the  *)
(* same order; the only header the proxy adds is User-Agent                *)
(* Binance-Proxy/1.0, exactly when the copied headers hold no non-empty    *)
(* User-Agent, and the inbound User-Agent values are never replaced.       *)
C17_InboundHeadersCopied ==
    \A r \in Reqs :
        Built(r)
        => LET from == inbound[r].header
               to == outbound[r].header
               added == IF NoAgent(from) THEN <<"Binance-Proxy/1.0">> ELSE <<>>
           IN /\ \A key \in DOMAIN from \ {"User-Agent"} :
                    Forwardable(key) => key \in DOMAIN to /\ to[key] = from[key]
              /\ DOMAIN to \subseteq DOMAIN from \cup {"User-Agent"}
              /\ "User-Agent" \in DOMAIN to
              /\ to["User-Agent"]
                    = (IF "User-Agent" \in DOMAIN from THEN from["User-Agent"] ELSE <<>>)
                      \o added
----------------------------------------------------------------------------
(* requests handled at the same time *)

(* C18: under every interleaving of two handlers, two requests with the    *)
(* same inbound data and the same upstream response that are at the same   *)
(* point of a ProxyServer handler have the same outbound request and the   *)
(* same response; no step writes the upstream base URL, and every step     *)
(* writes the state of one request only.                                   *)
C18_HandlersIndependent ==
    /\ [](\A r \in Reqs, q \in Reqs :
             (/\ inbound[r] = inbound[q] /\ upstream[r] = upstream[q] /\ pc[r] = pc[q]
              /\ MatchRoute(inbound[r].method, inbound[r].path) # "swaggerHandler")
             => /\ outbound[r] = outbound[q]
                /\ calls[r] = calls[q]
                /\ resp[r] = resp[q]
                /\ writer[r] = writer[q])
    /\ [][/\ binanceURL' = binanceURL
          /\ inbound' = inbound
          /\ upstream' = upstream
          /\ \E r \in Reqs :
                \A q \in Reqs \ {r} :
                    /\ pc'[q] = pc[q]
                    /\ outbound'[q] = outbound[q]
                    /\ calls'[q] = calls[q]
                    /\ resp'[q] = resp[q]
                    /\ writer'[q] = writer[q]]_vars

C18_Witness ==
    \E r \in Reqs, q \in Reqs :
        /\ r # q
        /\ inbound[r] = inbound[q] /\ upstream[r] = upstream[q]
        /\ RelayedTo(r) /\ DeclaresGzip(r)
        /\ pc[q] = "dispatch" /\ ~outbound[q].sent
        /\ binanceURL = binanceAPIBaseURL
----------------------------------------------------------------------------
(* routing *)

RoutePaths ==
    {HealthPath, TestPath, HealthPath \o <<"/">>, TestPath \o <<"/">>,
     HealthPath \o <<"z">>, TestPath \o <<"/", "x">>,
     SubSeq(SwaggerPrefix, 1, Len(SwaggerPrefix) - 1), SwaggerPrefix,
     SwaggerPrefix \o <<"d">>, TickerPath}

RouteScenarios ==
    {Scenario(Request(method, path, NoQuery, NoHeader, ""), up) :
        method \in {"GET", "POST", "DELETE", "OPTIONS"},
        path \in RoutePaths,
        up \in {PlainReply, Refused}}

InitRoute == StartWith(RouteScenarios)

SpecRoute == InitRoute /\ [][Next]_vars

(* the request is for one of the two diagnostic routes *)
Reserved(r) ==
    inbound[r].method = "GET" /\ inbound[r].path \in {HealthPath, TestPath}

(* the request is a GET for the documentation *)
Documentation(r) ==
    inbound[r].method = "GET" /\ HasPrefix(inbound[r].path, SwaggerPrefix)

(* the request is a GET that differs from a registered route by its last slash *)
OffBySlash(r) ==
    /\ inbound[r].method = "GET"
    /\ inbound[r].path \in {HealthPath \o <<"/">>, TestPath \o <<"/">>,
                            <<"/", "s", "w", "a", "g", "g", "e", "r">>}

(* the request was handed to the forwarding pipeline, which answers a      *)
(* preflight without the handler                                           *)
Translated(r) == writer[r].by \in {"ProxyRequest", "relay", "middleware"}

(* C19: every request that does not match GET /health or GET /test is      *)
(* routed to the forwarding pipeline, a request that matches one of them   *)
(* is never forwarded, and a request to /health that is neither GET nor    *)
(* OPTIONS is forwarded to the upstream.                                   *)
C19_OnlyDiagnosticsReserved ==
    \A r \in Reqs :
        pc[r] = "done"
        => /\ ~Reserved(r) => Translated(r)
           /\ Reserved(r) => ~Built(r) /\ ~Translated(r)
           /\ (inbound[r].path = HealthPath /\ inbound[r].method \notin {"GET", "OPTIONS"})
              => outbound[r].sent

(* C19, amended: the documentation route and the trailing-slash redirects  *)
(* are not forwarded either; everything else is.                           *)
C19_RegisteredRoutesReserved ==
    \A r \in Reqs :
        pc[r] = "done"
        => /\ (~Reserved(r) /\ ~Documentation(r) /\ ~OffBySlash(r))
              => /\ Translated(r)
                 /\ inbound[r].method # "OPTIONS" => writer[r].by \in {"ProxyRequest", "relay"}
           /\ Reserved(r)
              => ~Built(r) /\ writer[r].by \in {"HealthCheck", "TestConnection"}
           /\ Documentation(r) => ~Built(r) /\ writer[r].by = "swaggerHandler"
           /\ OffBySlash(r) => ~Built(r) /\ writer[r].by = "redirect"
           /\ (inbound[r].path = HealthPath /\ inbound[r].method \notin {"GET", "OPTIONS"})
              => outbound[r].sent

C19_Witness ==
    \E r \in Reqs :
        /\ inbound[r].method = "POST" /\ inbound[r].path = HealthPath
        /\ RelayedTo(r) /\ outbound[r].sent
        /\ Len(outbound[r].url) > 0
----------------------------------------------------------------------------
(* symbols given more than once *)

MaxMultiLen == 2

MultiChars == {"[", ",", "B"}

SymbolsQuery(values) == [k \in {"symbols"} |-> values]

MultiScenarios ==
    {Scenario(Request("GET", TickerPath, SymbolsQuery(<<v, w>>), NoHeader, ""), PlainReply) :
        v \in SeqsUpTo(MultiChars, MaxMultiLen), w \in SeqsUpTo(MultiChars, MaxMultiLen)}

(* request r1 drawn from the scenarios, request r2 with a first value that *)
(* is already an array, or an ordinary GET                                 *)
InitMulti ==
    \E s \in MultiScenarios \cup Basics,
       t \in {Scenario(PlainGet, PlainReply),
              Scenario(Request("GET", TickerPath,
                               SymbolsQuery(<< <<"[">>, <<"B", ",">>, <<"B">> >>),
                               NoHeader, ""), PlainReply)} :
        Start([r \in Reqs |-> IF r = "r1" THEN s ELSE t])

SpecMulti == InitMulti /\ [][Next]_vars

(* C20: when symbols is given more than once and the first value does not  *)
(* start with "[", the upstream receives one symbols value, the JSON array *)
(* built from the first value; when the first value starts with "[", the   *)
(* upstream receives every symbols value unchanged.                        *)
C20_FirstSymbolsDecides ==
    \A r \in Reqs :
        (Built(r) /\ HasSymbols(r) /\ Len(inbound[r].query["symbols"]) > 1)
        => LET got == Received(outbound[r].url, SymbolsKey)
           IN IF HasPrefix(FirstSymbols(r), <<"[">>)
              THEN got = inbound[r].query["symbols"]
              ELSE /\ Len(got) = 1
                   /\ ParseArray(got[1]).ok
                   /\ ParseArray(got[1]).list
                         = [j \in 1..Len(Fields(FirstSymbols(r), ",")) |->
                               Trimmed(Fields(FirstSymbols(r), ",")[j])]

C20_Witness ==
    \E r \in Reqs, q \in Reqs :
        /\ outbound[r].sent
        /\ HasSymbols(r) /\ inbound[r].query["symbols"] = << <<"B", ",">>, <<"[", "B">> >>
        /\ Received(outbound[r].url, SymbolsKey)
              = << <<"[", "\"", "B", "\"", ",", "\"", "\"", "]">> >>
        /\ outbound[q].sent
        /\ HasSymbols(q) /\ Len(inbound[q].query["symbols"]) = 3
        /\ Received(outbound[q].url, SymbolsKey) = inbound[q].query["symbols"]

====
